---- MODULE Spec2Model ----
(***************************************************************************)
(* A model of flavio/parameters.py: the readers that fill the parameter    *)
(* registry (Parameter) and the constraint store (ParameterConstraints)    *)
(* from YAML objects and from the PDG particle table.                      *)
(*                                                                         *)
(* Numbers are exact rationals <<n, d>> (d > 0, lowest terms); the floats  *)
(* of the program are modelled by the reals they approximate.              *)
(***************************************************************************)
EXTENDS Integers, Sequences, FiniteSets, TLC

VARIABLES registry, store, table, call, arg, result

vars == <<registry, store, table, call, arg, result>>

\* The store never grows beyond this many constraints in the model.
MaxStore == 4

-----------------------------------------------------------------------------
(* Exact arithmetic.                                                       *)

Abs(a) == IF a < 0 THEN -a ELSE a

RECURSIVE GCD(_, _)
GCD(a, b) == IF b = 0 THEN Abs(a) ELSE GCD(b, a % b)

Rat(n, d) ==
    LET s == IF d < 0 THEN -1 ELSE 1
        g == GCD(Abs(n), Abs(d))
    IN  <<(s * n) \div g, (s * d) \div g>>

Zero == Rat(0, 1)
One == Rat(1, 1)

RAdd(x, y) ==
    LET l == (x[2] \div GCD(x[2], y[2])) * y[2]
    IN  Rat(x[1] * (l \div x[2]) + y[1] * (l \div y[2]), l)

RNeg(x) == <<-x[1], x[2]>>
RSub(x, y) == RAdd(x, RNeg(y))

RMul(x, y) == Rat(x[1] * y[1], x[2] * y[2])

RDiv(x, y) == RMul(x, Rat(y[2], y[1]))

RPos(x) == x[1] > 0

\* floor of the square root of a natural number
ISqrt(n) == CHOOSE r \in 0..n : r * r <= n /\ (r + 1) * (r + 1) > n

\* math.sqrt: exact on the squares of rationals, which is what the inputs
\* of the model produce; rounded down componentwise elsewhere
sqrt(x) == Rat(ISqrt(x[1]), ISqrt(x[2]))

-----------------------------------------------------------------------------
(* Python's None, and the outcomes of a call.                              *)

None == <<>>

-----------------------------------------------------------------------------
(* The registry (flavio.classes.Parameter) and the constraint store        *)
(* (flavio.classes.ParameterConstraints).                                  *)

\* Parameter[name]: the lookup that raises KeyError on an unknown name
ParameterExists(reg, name) == name \in DOMAIN reg

\* Parameter(name): create, or reuse the entity that exists
ParameterCreate(reg, name) ==
    IF name \in DOMAIN reg
    THEN reg
    ELSE (name :> [tex |-> "", description |-> ""]) @@ reg

SetTex(reg, name, tex) == [reg EXCEPT ![name].tex = tex]
SetDescription(reg, name, d) == [reg EXCEPT ![name].description = d]

SeqSet(s) == {s[i] : i \in 1..Len(s)}

\* a function on 1..n as the sequence of its values (a list, an array row)
Array(f) == f \o <<>>

\* constraints.add_constraint(names, distribution): appends; removes nothing;
\* UnknownQuantity (KeyError) when a name is not registered
add_constraint(reg, st, names, dist) ==
    IF \A i \in 1..Len(names) : ParameterExists(reg, names[i])
    THEN [status |-> "ok", store |-> Append(st, [names |-> names, dist |-> dist])]
    ELSE [status |-> "KeyError", store |-> st]

\* constraints.remove_constraint(name): removes every constraint whose key
\* is exactly the name set; no error when there is none
remove_constraint(st, name) ==
    SelectSeq(st, LAMBDA c : SeqSet(c.names) # {name})

NormalDistribution(central, sd) ==
    [type |-> "Normal", central_value |-> central, standard_deviation |-> sd]

AsymmetricNormalDistribution(central, right, left) ==
    [type |-> "AsymmetricNormal", central_value |-> central,
     right_deviation |-> right, left_deviation |-> left]

MultivariateNormalDistribution(central, cov) ==
    [type |-> "MultivariateNormal", central_value |-> central, covariance |-> cov]

-----------------------------------------------------------------------------
(* FlavioParticle: the particle table and the two derived quantities.      *)

\* pdgid -> flavio name, of the particles the tables of the model hold
PDG_PARTICLES == [KS |-> 310, t |-> 6]

\* _pdg_particles_inv.get(pdgid, None)
flavio_name(p) ==
    IF \E k \in DOMAIN PDG_PARTICLES : PDG_PARTICLES[k] = p.pdgid
    THEN CHOOSE k \in DOMAIN PDG_PARTICLES : PDG_PARTICLES[k] = p.pdgid
    ELSE "None"

\* the regular expression and the rules of latex_name_simplified, on the
\* latex names of the tables of the model: with a subscript the superscripts
\* + - 0 are dropped
latex_name_simplified(p) ==
    CASE p.latex_name = "K_{S}^{0}" -> "K_{S}"
      [] p.latex_name = "t" -> "t"
      [] OTHER -> p.latex_name

MeVtoGeV == Rat(1, 1000)

NoData == [name |-> "None"]

flavio_m(p) ==
    [name |-> "m_" \o flavio_name(p),
     tex |-> "$m_{" \o latex_name_simplified(p) \o "}$",
     description |-> "$" \o latex_name_simplified(p) \o "$"
                     \o (IF p.name = "t" THEN " quark pole" ELSE "") \o " mass",
     central |-> RMul(p.mass, MeVtoGeV),
     right |-> RMul(p.mass_upper, MeVtoGeV),
     left |-> RMul(p.mass_lower, MeVtoGeV)]

\* variant: only the width itself is tested; a missing uncertainty counts as 0
flavio_tau_width_only(p) ==
    IF {p.width} \cap {None, Zero} # {}
    THEN NoData
    ELSE LET G_central == RMul(p.width, MeVtoGeV)
             G_right == RMul(IF p.width_upper = None THEN Zero ELSE p.width_upper,
                             MeVtoGeV)
             G_left == RMul(IF p.width_lower = None THEN Zero ELSE p.width_lower,
                            MeVtoGeV)
         IN  [name |-> "tau_" \o flavio_name(p),
              tex |-> "$\\tau_{" \o latex_name_simplified(p) \o "}$",
              description |-> "$" \o latex_name_simplified(p) \o "$ lifetime",
              central |-> RDiv(One, G_central),
              right |-> RDiv(G_right, RMul(G_central, G_central)),
              left |-> RDiv(G_left, RMul(G_central, G_central))]

flavio_tau(p) ==
    IF {p.width, p.width_upper, p.width_lower} \cap {None, Zero} # {}
    THEN NoData
    ELSE LET G_central == RMul(p.width, MeVtoGeV)
             G_right == RMul(p.width_upper, MeVtoGeV)
             G_left == RMul(p.width_lower, MeVtoGeV)
         IN  [name |-> "tau_" \o flavio_name(p),
              tex |-> "$\\tau_{" \o latex_name_simplified(p) \o "}$",
              description |-> "$" \o latex_name_simplified(p) \o "$ lifetime",
              central |-> RDiv(One, G_central),
              right |-> RDiv(G_right, RMul(G_central, G_central)),
              left |-> RDiv(G_left, RMul(G_central, G_central))]

\* cls.flavio_all(): the particles of the loaded table that have a flavio name
flavio_all(tbl) == {p \in tbl : flavio_name(p) # "None"}

Particle(id, nm, tex, m, mu, ml, w, wu, wl) ==
    [pdgid |-> id, name |-> nm, latex_name |-> tex,
     mass |-> m, mass_upper |-> mu, mass_lower |-> ml,
     width |-> w, width_upper |-> wu, width_lower |-> wl]

Photon == Particle(22, "gamma", "\\gamma", Zero, Zero, Zero, Zero, Zero, Zero)

\* particle{year}.csv (masses and widths in MeV)
Years == {2018, 2020, 2022}

load_table(year) ==
    CASE year = 2018 ->
           {Photon,
            Particle(310, "K(S)0", "K_{S}^{0}", Rat(498, 1), Rat(1, 1), Rat(1, 1),
                     Rat(1, 1), Rat(1, 10), Rat(1, 5)),
            Particle(6, "t", "t", Rat(173000, 1), Rat(400, 1), Rat(400, 1),
                     None, None, None)}
      [] year = 2020 ->
           {Photon,
            Particle(310, "K(S)0", "K_{S}^{0}", Rat(498, 1), Rat(1, 1), Rat(1, 1),
                     Rat(2, 1), Rat(1, 5), Rat(1, 5)),
            Particle(6, "t", "t", Rat(173000, 1), Rat(400, 1), Rat(400, 1),
                     Zero, None, None)}
      [] year = 2022 ->
           {Photon,
            Particle(310, "K(S)0", "K_{S}^{0}", Rat(498, 1), Rat(1, 1), Rat(2, 1),
                     Rat(1, 1), None, Rat(1, 5)),
            Particle(6, "t", "t", Rat(172000, 1), Rat(300, 1), Rat(300, 1),
                     Rat(1420, 1), Rat(190, 1), Rat(150, 1))}

-----------------------------------------------------------------------------
(* read_pdg                                                                *)

\* variant: the constraints on an existing parameter are not removed
pdg_data_keeps(s, data) ==
    LET reg1 == ParameterCreate(s.registry, data.name)
        reg2 == SetDescription(SetTex(reg1, data.name, data.tex),
                               data.name, data.description)
        dist == IF data.right = data.left
                THEN NormalDistribution(data.central, data.right)
                ELSE AsymmetricNormalDistribution(data.central, data.right, data.left)
        added == add_constraint(reg2, s.store, <<data.name>>, dist)
    IN  [registry |-> reg2, store |-> added.store, status |-> added.status]

\* variant: a NormalDistribution whatever the two uncertainties
pdg_data_normal(s, data) ==
    LET found == ParameterExists(s.registry, data.name)
        st1 == IF found THEN remove_constraint(s.store, data.name) ELSE s.store
        reg1 == IF found THEN s.registry ELSE ParameterCreate(s.registry, data.name)
        reg2 == SetDescription(SetTex(reg1, data.name, data.tex),
                               data.name, data.description)
        added == add_constraint(reg2, st1, <<data.name>>,
                                NormalDistribution(data.central, data.right))
    IN  [registry |-> reg2, store |-> added.store, status |-> added.status]

\* the body of the inner loop for one descriptor that is not None
pdg_data(s, data) ==
    LET found == ParameterExists(s.registry, data.name)
        st1 == IF found THEN remove_constraint(s.store, data.name) ELSE s.store
        reg1 == IF found THEN s.registry ELSE ParameterCreate(s.registry, data.name)
        reg2 == SetDescription(SetTex(reg1, data.name, data.tex),
                               data.name, data.description)
        dist == IF data.right = data.left
                THEN NormalDistribution(data.central, data.right)
                ELSE AsymmetricNormalDistribution(data.central, data.right, data.left)
        added == add_constraint(reg2, st1, <<data.name>>, dist)
    IN  [registry |-> reg2, store |-> added.store, status |-> added.status]

\* variant: a lifetime that is None clears the constraints on tau_<particle>
pdg_particle_clears(s, p) ==
    LET s1 == pdg_data(s, flavio_m(p))
    IN  IF flavio_tau(p) = NoData
        THEN [s1 EXCEPT !.store = remove_constraint(s1.store, "tau_" \o flavio_name(p))]
        ELSE pdg_data(s1, flavio_tau(p))

\* for data in (particle.flavio_m, particle.flavio_tau)
pdg_particle(s, p) ==
    LET s1 == pdg_data(s, flavio_m(p))
    IN  IF flavio_tau(p) = NoData THEN s1 ELSE pdg_data(s1, flavio_tau(p))

\* for particle in FlavioParticle.flavio_all(), in the order the set yields
RECURSIVE pdg_loop(_, _)
pdg_loop(s, order) ==
    IF order = <<>> THEN s
    ELSE pdg_loop(pdg_particle(s, Head(order)), Tail(order))

Orders(S) == {o \in [1..Cardinality(S) -> S] : SeqSet(o) = S}

-----------------------------------------------------------------------------
(* The YAML readers.  A YAML mapping is the sequence of its entries, a     *)
(* YAML list the sequence of its items.                                    *)

Dec(n, d) == Rat(n, d)

\* errors_from_string, on the value strings of the model; ParseError is
\* status "ValueError"
errors_from_string(value) ==
    CASE value = "1.0 +- 0.3 +- 0.4" ->
           [status |-> "ok", central_value |-> Dec(1, 1),
            symmetric_errors |-> <<Dec(3, 10), Dec(4, 10)>>,
            asymmetric_errors |-> <<>>]
      [] value = "2.0 +0.2 -0.8" ->
           [status |-> "ok", central_value |-> Dec(2, 1),
            symmetric_errors |-> <<>>,
            asymmetric_errors |-> <<<<Dec(2, 10), Dec(8, 10)>>>>]
      [] value = "0.5 +- 0.3 +0.8 -0.2" ->
           [status |-> "ok", central_value |-> Dec(1, 2),
            symmetric_errors |-> <<Dec(3, 10)>>,
            asymmetric_errors |-> <<<<Dec(8, 10), Dec(2, 10)>>>>]
      [] value = "1.0 +- 0" ->
           [status |-> "ok", central_value |-> Dec(1, 1),
            symmetric_errors |-> <<Zero>>,
            asymmetric_errors |-> <<>>]
      [] OTHER ->
           [status |-> "ValueError", central_value |-> Zero,
            symmetric_errors |-> <<>>, asymmetric_errors |-> <<>>]

\* constraints.set_constraint(name, value): lookup or fail, parse, build the
\* distribution of the one quantity, add_constraint
set_constraint(reg, st, name, value) ==
    LET e == errors_from_string(value)
    IN  IF ~ParameterExists(reg, name) THEN [status |-> "KeyError", store |-> st]
        ELSE IF e.status # "ok" THEN [status |-> e.status, store |-> st]
        ELSE add_constraint(reg, st, <<name>>,
                 [type |-> "FromString", central_value |-> e.central_value,
                  symmetric_errors |-> e.symmetric_errors,
                  asymmetric_errors |-> e.asymmetric_errors])

\* _read_yaml_object_metadata: the body of the loop
metadata_entry(reg, entry) ==
    LET name == entry[1]
        info == entry[2]
        r0 == ParameterCreate(reg, name)
        r1 == IF "description" \in DOMAIN info /\ info.description # "None"
              THEN SetDescription(r0, name, info.description) ELSE r0
    IN  IF "tex" \in DOMAIN info /\ info.tex # "None"
        THEN SetTex(r1, name, info.tex) ELSE r1

RECURSIVE metadata_loop(_, _)
metadata_loop(reg, entries) ==
    IF entries = <<>> THEN reg
    ELSE metadata_loop(metadata_entry(reg, Head(entries)), Tail(entries))

\* variant: Parameter(name) in place of Parameter[name]
values_entry_creates(s, entry) ==
    LET reg == ParameterCreate(s.registry, entry[1])
        r == set_constraint(reg, s.store, entry[1], entry[2])
    IN  [registry |-> reg, store |-> r.store, status |-> r.status]

\* _read_yaml_object_values: the body of the loop
values_entry(s, entry) ==
    IF ~ParameterExists(s.registry, entry[1])
    THEN [s EXCEPT !.status = "KeyError"]
    ELSE LET r == set_constraint(s.registry, s.store, entry[1], entry[2])
         IN  [registry |-> s.registry, store |-> r.store, status |-> r.status]

\* the loop ends at the first entry that raises
RECURSIVE values_loop(_, _)
values_loop(s, entries) ==
    IF entries = <<>> \/ s.status # "ok" THEN s
    ELSE values_loop(values_entry(s, Head(entries)), Tail(entries))

-----------------------------------------------------------------------------
(* _read_yaml_object_values_correlated                                     *)

RECURSIVE SumSquares(_)
SumSquares(errs) ==
    IF errs = <<>> THEN Zero
    ELSE RAdd(RMul(Head(errs), Head(errs)), SumSquares(Tail(errs)))

RECURSIVE SumProducts(_)
SumProducts(errs) ==
    IF errs = <<>> THEN Zero
    ELSE RAdd(RMul(Head(errs)[1], Head(errs)[2]), SumProducts(Tail(errs)))

RECURSIVE SumMeanSquares(_)
SumMeanSquares(errs) ==
    IF errs = <<>> THEN Zero
    ELSE RAdd(RMul(Rat(1, 2), RAdd(RMul(Head(errs)[1], Head(errs)[1]),
                                   RMul(Head(errs)[2], Head(errs)[2]))),
              SumMeanSquares(Tail(errs)))

\* variant: an asymmetric error counts with the average of its squares
squared_error_average(error_dict) ==
    RAdd(SumSquares(error_dict.symmetric_errors),
         SumMeanSquares(error_dict.asymmetric_errors))

\* the two loops that accumulate squared_error
squared_error(error_dict) ==
    RAdd(SumSquares(error_dict.symmetric_errors),
         SumProducts(error_dict.asymmetric_errors))

\* the loop over parameter_group['values']: acc holds parameter_names,
\* central_values and errors
RECURSIVE group_values(_, _, _)
group_values(reg, values, acc) ==
    IF values = <<>> THEN acc
    ELSE LET parameter_name == Head(values)[1]
             error_dict == errors_from_string(Head(values)[2])
         IN  IF ~ParameterExists(reg, parameter_name)
             THEN [acc EXCEPT !.status = "KeyError"]
             ELSE IF error_dict.status # "ok"
             THEN [acc EXCEPT !.status = error_dict.status]
             ELSE group_values(reg, Tail(values),
                    [status |-> "ok",
                     parameter_names |-> Append(acc.parameter_names, parameter_name),
                     central_values |->
                         Append(acc.central_values, error_dict.central_value),
                     errors |-> Append(acc.errors, sqrt(squared_error(error_dict)))])

\* _fix_correlation_matrix(corr, n_dim): corr holds the upper right of the
\* symmetric matrix, row by row; the full matrix, or a dimension mismatch
fix_correlation_matrix(corr, n_dim) ==
    IF Len(corr) = n_dim /\ \A i \in 1..n_dim : Len(corr[i]) = n_dim - i + 1
    THEN [status |-> "ok",
          matrix |-> Array([i \in 1..n_dim |-> Array([j \in 1..n_dim |->
                        IF j >= i THEN corr[i][j - i + 1] ELSE corr[j][i - j + 1]])])]
    ELSE [status |-> "DimensionMismatch", matrix |-> <<>>]

\* np.outer(np.asarray(errors), np.asarray(errors))*correlation
covariance_of(errors, correlation) ==
    Array([i \in 1..Len(errors) |-> Array([j \in 1..Len(errors) |->
        RMul(RMul(errors[i], errors[j]), correlation[i][j])])])

Minor(m, r, c) ==
    Array([i \in 1..(Len(m) - 1) |-> Array([j \in 1..(Len(m) - 1) |->
        m[IF i < r THEN i ELSE i + 1][IF j < c THEN j ELSE j + 1]])])

RECURSIVE Det(_)
RECURSIVE DetRow(_, _)
Det(m) == IF Len(m) = 1 THEN m[1][1] ELSE DetRow(m, Len(m))

DetRow(m, j) ==
    IF j = 0 THEN Zero
    ELSE LET t == RMul(m[1][j], Det(Minor(m, 1, j)))
         IN  RAdd(IF j % 2 = 1 THEN t ELSE RNeg(t), DetRow(m, j - 1))

\* np.all(np.linalg.eigvals(covariance) > 0): the matrix is symmetric, so its
\* eigenvalues are all positive exactly when its leading minors are
eigvals_positive(m) ==
    \A k \in 1..Len(m) :
        RPos(Det(Array([i \in 1..k |-> Array([j \in 1..k |-> m[i][j]])])))

Damping == Rat(99, 100)

\* np.eye(n_dim)[i][j]
eye(i, j) == IF i = j THEN One ELSE Zero

\* (correlation - np.eye(n_dim))*0.99 + np.eye(n_dim)
damp(correlation) ==
    Array([i \in 1..Len(correlation) |-> Array([j \in 1..Len(correlation) |->
        RAdd(RMul(RSub(correlation[i][j], eye(i, j)), Damping), eye(i, j))])])

\* variant: the correlations are damped whatever the first test says
group_covariance_damped(errors, correlation) ==
    LET damped == covariance_of(errors, damp(correlation))
    IN  IF eigvals_positive(damped)
        THEN [status |-> "ok", covariance |-> damped]
        ELSE [status |-> "AssertionError", covariance |-> damped]

\* variant: the damped covariance is not tested again
group_covariance_unchecked(errors, correlation) ==
    LET covariance == covariance_of(errors, correlation)
    IN  IF eigvals_positive(covariance)
        THEN [status |-> "ok", covariance |-> covariance]
        ELSE [status |-> "ok", covariance |-> covariance_of(errors, damp(correlation))]

\* from the first covariance to the assertion: the covariance to add, or the
\* AssertionError
group_covariance(errors, correlation) ==
    LET covariance == covariance_of(errors, correlation)
    IN  IF eigvals_positive(covariance)
        THEN [status |-> "ok", covariance |-> covariance]
        ELSE LET damped == covariance_of(errors, damp(correlation))
             IN  IF eigvals_positive(damped)
                 THEN [status |-> "ok", covariance |-> damped]
                 ELSE [status |-> "AssertionError", covariance |-> damped]

\* the body of the loop over the groups
correlated_group(s, parameter_group) ==
    LET v == group_values(s.registry, parameter_group.values,
                 [status |-> "ok", parameter_names |-> <<>>,
                  central_values |-> <<>>, errors |-> <<>>])
        c == fix_correlation_matrix(parameter_group.correlation,
                                    Len(v.parameter_names))
    IN  IF v.status # "ok" THEN [s EXCEPT !.status = v.status]
        ELSE IF c.status # "ok" THEN [s EXCEPT !.status = c.status]
        ELSE LET g == group_covariance(v.errors, c.matrix)
             IN  IF g.status # "ok" THEN [s EXCEPT !.status = g.status]
                 ELSE LET r == add_constraint(s.registry, s.store, v.parameter_names,
                                   MultivariateNormalDistribution(v.central_values,
                                                                  g.covariance))
                      IN  [registry |-> s.registry, store |-> r.store,
                           status |-> r.status]

\* variant: a group that raises is skipped and the loop goes on
RECURSIVE correlated_loop_skips(_, _)
correlated_loop_skips(s, groups) ==
    IF groups = <<>> THEN s
    ELSE LET r == correlated_group([s EXCEPT !.status = "ok"], Head(groups))
         IN  correlated_loop_skips([r EXCEPT !.status =
                                       IF s.status # "ok" THEN s.status ELSE r.status],
                                   Tail(groups))

\* the loop ends at the first group that raises
RECURSIVE correlated_loop(_, _)
correlated_loop(s, groups) ==
    IF groups = <<>> \/ s.status # "ok" THEN s
    ELSE correlated_loop(correlated_group(s, Head(groups)), Tail(groups))

-----------------------------------------------------------------------------

State == [registry |-> registry, store |-> store, status |-> "ok"]

\* YAML objects with parameter metadata
MetadataInputs ==
    { << <<"Vub", [description |-> "CKM element", tex |-> "$V_{ub}$"]>>,
         <<"Vcb", [description |-> "None"]>> >>,
      << <<"m_KS", [tex |-> "$m_K$"]>> >> }

\* YAML objects with parameter values
ValuesInputs ==
    { << <<"Vub", "1.0 +- 0.3 +- 0.4">> >>,
      << <<"Vub", "1.0 +- 0.3 +- 0.4">>, <<"Vxx", "1.0 +- 0.3 +- 0.4">>,
         <<"Vcb", "2.0 +0.2 -0.8">> >>,
      << <<"Vub", "abc">>, <<"Vcb", "2.0 +0.2 -0.8">> >>,
      << <<"tau_KS", "2.0 +0.2 -0.8">> >> }

Group(values, correlation) == [values |-> values, correlation |-> correlation]

VubVcb == << <<"Vub", "1.0 +- 0.3 +- 0.4">>, <<"Vcb", "2.0 +0.2 -0.8">> >>

GroupHalf == Group(VubVcb, << <<One, Dec(1, 2)>>, <<One>> >>)
GroupFull == Group(VubVcb, << <<One, One>>, <<One>> >>)
GroupTwice == Group(VubVcb, << <<One, Dec(2, 1)>>, <<One>> >>)
GroupNoError == Group(<< <<"Vub", "1.0 +- 0">>, <<"Vcb", "2.0 +0.2 -0.8">> >>,
                      << <<One, Zero>>, <<One>> >>)
GroupUnknown == Group(<< <<"Vub", "2.0 +0.2 -0.8">>, <<"Vxx", "2.0 +0.2 -0.8">> >>,
                      << <<One, Zero>>, <<One>> >>)
GroupUnparsed == Group(<< <<"Vub", "abc">>, <<"Vcb", "2.0 +0.2 -0.8">> >>,
                       << <<One, Zero>>, <<One>> >>)
GroupMismatch == Group(VubVcb, << <<One>> >>)
GroupMass == Group(<< <<"m_KS", "0.5 +- 0.3 +0.8 -0.2">>,
                      <<"Vub", "1.0 +- 0.3 +- 0.4">>, <<"Vcb", "2.0 +0.2 -0.8">> >>,
                   << <<One, Dec(1, 2), Zero>>, <<One, Dec(-1, 2)>>, <<One>> >>)

\* YAML objects with correlated parameter values
CorrelatedInputs ==
    { <<GroupMass>>, <<GroupFull, GroupTwice, GroupHalf>>,
      <<GroupNoError, GroupHalf>>, <<GroupUnknown, GroupHalf>>,
      <<GroupUnparsed>>, <<GroupMass, GroupMismatch, GroupHalf>> }

Init ==
    /\ registry = <<>>
    /\ store = <<>>
    /\ table = {}
    /\ call = "init"
    /\ arg = <<>>
    /\ result = "ok"

\* read_file_metadata(filename, constraints)
ReadMetadata ==
    \E obj \in MetadataInputs :
        /\ registry' = metadata_loop(registry, obj)
        /\ call' = "read_file_metadata"
        /\ arg' = obj
        /\ result' = "ok"
        /\ UNCHANGED <<store, table>>

\* read_file_values(filename, constraints)
ReadValues ==
    \E obj \in ValuesInputs :
        LET s == values_loop(State, obj)
        IN  /\ Len(s.store) <= MaxStore
            /\ store' = s.store
            /\ call' = "read_file_values"
            /\ arg' = obj
            /\ result' = s.status
            /\ UNCHANGED <<registry, table>>

\* read_file_values_correlated(filename, constraints)
ReadValuesCorrelated ==
    \E obj \in CorrelatedInputs :
        LET s == correlated_loop(State, obj)
        IN  /\ Len(s.store) <= MaxStore
            /\ store' = s.store
            /\ call' = "read_file_values_correlated"
            /\ arg' = obj
            /\ result' = s.status
            /\ UNCHANGED <<registry, table>>

\* read_pdg(year, constraints)
ReadPdg ==
    \E year \in Years :
      \E order \in Orders(flavio_all(load_table(year))) :
        LET s == pdg_loop(State, order)
        IN  /\ Len(s.store) <= MaxStore
            /\ table' = load_table(year)
            /\ registry' = s.registry
            /\ store' = s.store
            /\ call' = "read_pdg"
            /\ arg' = <<year>>
            /\ result' = s.status

Next == ReadMetadata \/ ReadValues \/ ReadValuesCorrelated \/ ReadPdg

Spec == Init /\ [][Next]_vars

-----------------------------------------------------------------------------
(* Properties of read_pdg.                                                 *)

\* the number of constraints whose key is exactly the one name
KeyCount(st, name) == Cardinality({i \in 1..Len(st) : st[i].names = <<name>>})

\* the constraints that mention the name, in the order of the store
Mentioning(st, name) == SelectSeq(st, LAMBDA c : name \in SeqSet(c.names))

\* the descriptors read_pdg emits for a table
Emitted(tbl) ==
    {flavio_m(p) : p \in flavio_all(tbl)}
        \cup {flavio_tau(p) : p \in {q \in flavio_all(tbl) : flavio_tau(q) # NoData}}

\* the lifetime of the particle is not computable
NoLifetime(p) ==
    p.width = None \/ p.width = Zero \/ p.width_upper = None \/ p.width_lower = None

\* C1: after read_pdg every name it emitted has exactly one constraint whose
\* key is that single name, and running read_pdg again on the same table
\* leaves the number of constraints in the store as it is.
C1_ReloadIdempotent ==
    call = "read_pdg" =>
        /\ \A d \in Emitted(table) : KeyCount(store, d.name) = 1
        /\ \A order \in Orders(flavio_all(table)) :
               Len(pdg_loop(State, order).store) = Len(store)

\* a reload over a store that also holds a correlated constraint on an emitted
\* name and a lifetime constraint of an earlier table
C1_Witness ==
    /\ call = "read_pdg"
    /\ \E i \in 1..Len(store) : Len(store[i].names) > 1 /\ "m_KS" \in SeqSet(store[i].names)
    /\ KeyCount(store, "m_KS") = 1
    /\ KeyCount(store, "tau_KS") = 1

\* C2: the lifetime descriptor of a particle whose width G and width
\* uncertainties are all defined and non-zero has central = 1/G, right
\* uncertainty = G_left/G^2 and left uncertainty = G_right/G^2.
C2_TauSwapsSides ==
    \A p \in flavio_all(table) :
        {p.width, p.width_upper, p.width_lower} \cap {None, Zero} = {} =>
            LET G == RMul(p.width, Rat(1, 1000))
                G_right == RMul(p.width_upper, Rat(1, 1000))
                G_left == RMul(p.width_lower, Rat(1, 1000))
            IN  /\ flavio_tau(p).central = RDiv(One, G)
                /\ flavio_tau(p).right = RDiv(G_left, RMul(G, G))
                /\ flavio_tau(p).left = RDiv(G_right, RMul(G, G))

\* C3: for a particle whose lifetime is not computable flavio_tau yields no
\* descriptor, and read_pdg ends without raising, registers no tau_<particle>,
\* adds no constraint on it, and still emits the mass quantity and its one
\* constraint.
C3_AbsentLifetimeSkipped ==
    [][call' = "read_pdg" =>
        \A p \in flavio_all(table') :
            NoLifetime(p) =>
                LET tau == "tau_" \o flavio_name(p)
                    m == "m_" \o flavio_name(p)
                IN  /\ flavio_tau(p) = NoData
                    /\ result' = "ok"
                    /\ tau \in DOMAIN registry' => tau \in DOMAIN registry
                    /\ Len(Mentioning(store', tau)) <= Len(Mentioning(store, tau))
                    /\ m \in DOMAIN registry'
                    /\ KeyCount(store', m) = 1]_vars

\* read_pdg has run on a table with a particle of width zero: its mass is
\* there, its lifetime is not
C3_Witness ==
    /\ call = "read_pdg"
    /\ result = "ok"
    /\ \E p \in flavio_all(table) :
           /\ p.width = Zero
           /\ ("tau_" \o flavio_name(p)) \notin DOMAIN registry
           /\ KeyCount(store, "m_" \o flavio_name(p)) = 1

\* C7: read_pdg adds exactly one single-name constraint for every descriptor
\* it emits: a Normal with the central value and standard deviation right when
\* right = left, otherwise an AsymmetricNormal with right_deviation = right and
\* left_deviation = left.
C7_DistributionSelection ==
    call = "read_pdg" =>
        \A d \in Emitted(table) :
            \E i \in 1..Len(store) :
                /\ store[i].names = <<d.name>>
                /\ \A j \in 1..Len(store) : store[j].names = <<d.name>> => j = i
                /\ store[i].dist =
                       IF d.right = d.left
                       THEN [type |-> "Normal", central_value |-> d.central,
                             standard_deviation |-> d.right]
                       ELSE [type |-> "AsymmetricNormal", central_value |-> d.central,
                             right_deviation |-> d.right, left_deviation |-> d.left]

\* a table that yields both a Normal and an AsymmetricNormal has been read
C7_Witness ==
    /\ call = "read_pdg"
    /\ \E i \in 1..Len(store) :
           Len(store[i].names) = 1 /\ store[i].dist.type = "Normal"
    /\ \E i \in 1..Len(store) :
           /\ store[i].names = <<"tau_KS">>
           /\ store[i].dist.type = "AsymmetricNormal"
           /\ store[i].dist.right_deviation # store[i].dist.left_deviation

\* C10: when the lifetime of a particle is not computable, read_pdg leaves
\* the constraints on tau_<particle> already in the store, and its metadata in
\* the registry, as they were.
C10_SkippedLifetimeUntouched ==
    [][call' = "read_pdg" =>
        \A p \in flavio_all(table') :
            flavio_tau(p) = NoData =>
                LET tau == "tau_" \o flavio_name(p)
                IN  /\ Mentioning(store', tau) = Mentioning(store, tau)
                    /\ tau \in DOMAIN registry =>
                           tau \in DOMAIN registry' /\ registry'[tau] = registry[tau]]_vars

\* a table in which the lifetime of KS is not computable has been read, and
\* the lifetime constraint of an earlier table is still in the store
C10_Witness ==
    /\ call = "read_pdg"
    /\ \E p \in flavio_all(table) : flavio_name(p) = "KS" /\ flavio_tau(p) = NoData
    /\ KeyCount(store, "tau_KS") >= 1
    /\ "tau_KS" \in DOMAIN registry

-----------------------------------------------------------------------------
(* Properties of the readers of YAML values.                               *)

\* the entry names a registered parameter and its value string parses
EntryPasses(reg, entry) ==
    entry[1] \in DOMAIN reg /\ errors_from_string(entry[2]).status = "ok"

\* C4: when _read_yaml_object_values reaches an entry whose name is not in
\* the registry it ends with the KeyError of the lookup: the entry adds no
\* constraint and registers nothing, and the store is the store before the
\* call plus the one constraint of each earlier entry.
C4_UnknownNameRejected ==
    [][call' = "read_file_values" =>
        \A k \in 1..Len(arg') :
            (/\ \A j \in 1..(k - 1) : EntryPasses(registry, arg'[j])
             /\ arg'[k][1] \notin DOMAIN registry)
            => /\ result' = "KeyError"
               /\ registry' = registry
               /\ Len(store') = Len(store) + (k - 1)
               /\ SubSeq(store', 1, Len(store)) = store
               /\ \A j \in 1..(k - 1) : store'[Len(store) + j].names = <<arg'[j][1]>>
               /\ \A i \in 1..Len(store') : arg'[k][1] \notin SeqSet(store'[i].names)]_vars

\* the reader has failed on the unknown name of its second entry, after the
\* first entry set its constraint
C4_Witness ==
    /\ call = "read_file_values"
    /\ result = "KeyError"
    /\ Len(arg) > 1
    /\ arg[1][1] \in DOMAIN registry
    /\ arg[2][1] \notin DOMAIN registry
    /\ store # <<>>
    /\ store[Len(store)].names = <<arg[1][1]>>

\* (M - I)*0.99 + I
DampedOnce(M) ==
    Array([i \in 1..Len(M) |-> Array([j \in 1..Len(M) |->
        IF i = j THEN RAdd(RMul(RSub(M[i][j], One), Rat(99, 100)), One)
        ELSE RMul(M[i][j], Rat(99, 100))])])

\* outer(e, e) * M
Outer(e, M) ==
    Array([i \in 1..Len(e) |->
        Array([j \in 1..Len(e) |-> RMul(RMul(e[i], e[j]), M[i][j])])])

\* what a group declares: its names and central values in the order declared,
\* the squared total error of each quantity (the sum of the squares of the
\* symmetric errors plus the sum of upper * lower of the asymmetric ones) and
\* its square root, the correlation matrix, and the two covariances
GroupDeclares(g) ==
    LET n == Len(g.values)
        parsed == Array([i \in 1..n |-> errors_from_string(g.values[i][2])])
        squared == Array([i \in 1..n |->
                       RAdd(SumSquares(parsed[i].symmetric_errors),
                            SumProducts(parsed[i].asymmetric_errors))])
        e == Array([i \in 1..n |-> sqrt(squared[i])])
        fixed == fix_correlation_matrix(g.correlation, n)
        M == IF fixed.status = "ok" THEN fixed.matrix
             ELSE Array([i \in 1..n |-> Array([j \in 1..n |-> Zero])])
    IN  [group |-> g,
         names |-> Array([i \in 1..n |-> g.values[i][1]]),
         parsed |-> \A i \in 1..n : parsed[i].status = "ok",
         central |-> Array([i \in 1..n |-> parsed[i].central_value]),
         squared |-> squared,
         errors |-> e,
         fits |-> fixed.status = "ok",
         matrix |-> M,
         undamped |-> Outer(e, M),
         damped |-> Outer(e, DampedOnce(M)),
         undamped_positive |-> eigvals_positive(Outer(e, M)),
         damped_positive |-> eigvals_positive(Outer(e, DampedOnce(M)))]

\* the groups of the YAML objects, each with what it declares
Declared ==
    {GroupDeclares(g) : g \in UNION {SeqSet(obj) : obj \in CorrelatedInputs}}

Of(g) == CHOOSE d \in Declared : d.group = g

\* every name is registered, every value string parses, the matrix has the
\* dimension of the group
GroupReadable(reg, g) ==
    /\ SeqSet(Of(g).names) \subseteq DOMAIN reg
    /\ Of(g).parsed
    /\ Of(g).fits

\* ... and the covariance is positive definite, as it is or damped once
GroupPasses(reg, g) ==
    /\ GroupReadable(reg, g)
    /\ Of(g).undamped_positive \/ Of(g).damped_positive

\* the reader gets to group k of the object
GroupReached(reg, obj, k) == \A j \in 1..(k - 1) : GroupPasses(reg, obj[j])

\* the number of groups at the head of the object that pass
PassedGroups(reg, obj) ==
    Cardinality({k \in 1..Len(obj) : GroupReached(reg, obj, k + 1)})

\* C5: a group whose undamped covariance is not positive definite is damped
\* exactly once; if the damped covariance passes the test the constraint is
\* added with it, otherwise the reader ends with the AssertionError and adds
\* nothing for the group.
C5_OneRepairThenFailure ==
    [][call' = "read_file_values_correlated" =>
        \A k \in 1..Len(arg') :
            LET g == arg'[k]
            IN  (/\ GroupReached(registry, arg', k)
                 /\ GroupReadable(registry, g)
                 /\ ~Of(g).undamped_positive)
                => IF Of(g).damped_positive
                   THEN /\ Len(store') >= Len(store) + k
                        /\ store'[Len(store) + k].dist.covariance = Of(g).damped
                   ELSE /\ result' = "AssertionError"
                        /\ Len(store') = Len(store) + (k - 1)]_vars

\* a first group was added with its correlation damped to 0.99, and the
\* second group failed the test again after its one damping
C5_Witness ==
    /\ call = "read_file_values_correlated"
    /\ result = "AssertionError"
    /\ store # <<>>
    /\ store[Len(store)].names = Of(arg[1]).names
    /\ store[Len(store)].dist.covariance[1][2] = <<99, 500>>

\* C6: a group whose undamped covariance outer(e, e) * M has only positive
\* eigenvalues gets its constraint with exactly that covariance; the damping
\* is not applied.
C6_NoDampingWhenPositive ==
    [][call' = "read_file_values_correlated" =>
        \A k \in 1..Len(arg') :
            LET g == arg'[k]
            IN  (/\ GroupReached(registry, arg', k)
                 /\ GroupReadable(registry, g)
                 /\ Of(g).undamped_positive)
                => /\ Len(store') >= Len(store) + k
                   /\ store'[Len(store) + k].dist.covariance =
                          Outer(Of(g).errors, Of(g).matrix)]_vars

\* the group of three with correlations 1/2, 0 and -1/2 was added undamped
C6_Witness ==
    /\ call = "read_file_values_correlated"
    /\ result = "ok"
    /\ store # <<>>
    /\ store[Len(store)].names = <<"m_KS", "Vub", "Vcb">>
    /\ store[Len(store)].dist.covariance[1][2] = <<1, 8>>
    /\ store[Len(store)].dist.covariance[2][3] = <<-1, 10>>

\* C8: the squared total error of a quantity is the sum of the squares of its
\* symmetric errors plus the sum of upper * lower of its asymmetric errors, the
\* total error e its square root, and the constraint of the group holds the
\* names and central values in the order declared and the covariance entries
\* e_i * e_j * M_ij, M being the correlation matrix in use (damped or not).
C8_TotalErrorAndCovariance ==
    [][call' = "read_file_values_correlated" =>
        \A k \in 1..(Len(store') - Len(store)) :
            LET d == Of(arg'[k])
                c == store'[Len(store) + k]
                M == IF d.undamped_positive THEN d.matrix ELSE DampedOnce(d.matrix)
            IN  /\ c.names = d.names
                /\ c.dist.central_value = d.central
                /\ \A i \in 1..Len(d.names) :
                       /\ d.errors[i][1] >= 0
                       /\ RMul(d.errors[i], d.errors[i]) = d.squared[i]
                /\ \A i, j \in 1..Len(d.names) :
                       c.dist.covariance[i][j] =
                           RMul(RMul(d.errors[i], d.errors[j]), M[i][j])]_vars

\* a group with symmetric errors 0.3 and 0.4 on one quantity (e = 1/2) and
\* the asymmetric error +0.2 -0.8 on the other (e = 2/5) was added
C8_Witness ==
    /\ call = "read_file_values_correlated"
    /\ store # <<>>
    /\ store[Len(store)].names = <<"Vub", "Vcb">>
    /\ store[Len(store)].dist.central_value = << <<1, 1>>, <<2, 1>> >>
    /\ store[Len(store)].dist.covariance[1][1] = <<1, 4>>
    /\ store[Len(store)].dist.covariance[2][2] = <<4, 25>>

\* C9: a group adds its constraint only when all its names are registered,
\* all its value strings parse, its matrix has its dimension and its
\* covariance passes the test; when group k fails, the store is the store
\* before the call plus one constraint for each of the groups before k, and
\* the groups after k are not processed.
C9_GroupAtomicNoRollback ==
    [][call' = "read_file_values_correlated" =>
        LET done == PassedGroups(registry, arg')
        IN  /\ Len(store') = Len(store) + done
            /\ SubSeq(store', 1, Len(store)) = store
            /\ \A j \in 1..done : store'[Len(store) + j].names = Of(arg'[j]).names
            /\ registry' = registry
            /\ result' = "ok" <=> done = Len(arg')]_vars

\* the second of three groups failed the dimension check: the constraint of
\* the first is in the store, the third, which would pass, is not
C9_Witness ==
    /\ call = "read_file_values_correlated"
    /\ result = "DimensionMismatch"
    /\ Len(arg) = 3
    /\ GroupPasses(registry, arg[3])
    /\ store # <<>>
    /\ store[Len(store)].names = Of(arg[1]).names

====
